---- MODULE Spec2Model ----
(***************************************************************************)
(* Model of the periodic publisher in src/main.rs: one sequential thread   *)
(* that initialises the messaging framework, resolves a topic name,        *)
(* acquires a publisher and then loops construct -> publish -> log ->      *)
(* sleep.  The results of the framework calls (resolve_topic_name,         *)
(* get_publisher, publish) and the wall-clock reading are inputs.          *)
(***************************************************************************)
EXTENDS Integers, Sequences, FiniteSets, TLC

(* ---- bounds ----------------------------------------------------------- *)
MaxTicks == 3            \* loop iterations explored
MaxClock == 2            \* wall-clock readings range over 0..MaxClock

(* ---- program constants ------------------------------------------------ *)
sleep_duration == 1000                       \* main.rs:11, milliseconds
topic_name == "OUTGOING_MESSAGE"             \* main.rs:13
Body == "Hello, World! [crab]"               \* main.rs:24 (the crab emoji written in ASCII)

(* ---- Option<T> as a sequence of length 0 or 1 ------------------------- *)
None == <<>>
Some(x) == <<x>>

(* ---- values the external collaborator can hand back ------------------- *)
TransportNames == {"topic-123", "topic-456"}
ResolveResults == {None} \cup {Some(n) : n \in TransportNames}
PublishResults == {"Ok", "Err"}
Clock == 0..MaxClock

\* get_publisher::<PlainText>(name): a handle bound to the name, or None
GetPublisherResults(name) == {None, Some([topic |-> name])}

VARIABLES
  pc,               \* position of main
  initCalls,        \* calls of make87::initialize
  resolveCalls,     \* calls of make87::resolve_topic_name
  resolveArgs,      \* the arguments of those calls
  resolved,         \* result of resolve_topic_name (None before the call)
  getPublisherCalls,\* calls of make87::get_publisher
  topic,            \* the publisher handle, Option
  message,          \* the envelope of the current iteration, Option
  envelopes,        \* envelopes constructed so far
  clockReadings,    \* the wall-clock readings taken, in order
  published,        \* history of publish calls: envelope, handle, envelope number
  results,          \* history of publish results
  logs,             \* records written to stdout / stderr
  slept             \* durations of the sleeps completed

vars == <<pc, initCalls, resolveCalls, resolveArgs, resolved, getPublisherCalls,
          topic, message, envelopes, clockReadings, published, results, logs, slept>>

Terminated == {"panicked", "returned"}

(* ---- pure parts of main ----------------------------------------------- *)

\* mutant: only the sub-second part of the reading is kept
NewMessageSubsecOnly(t) ==
  [header |-> Some([timestamp |-> t % 2, reference_id |-> 0, entity_path |-> "/"]),
   body |-> Body]

\* mutant: the reference id carries a value that changes between iterations
NewMessageRefIdVaries(t) ==
  [header |-> Some([timestamp |-> t, reference_id |-> t, entity_path |-> "/"]),
   body |-> Body]

\* PlainText { header: Some(Header { timestamp, reference_id: 0, entity_path: "/" }), body }
NewMessage(t) ==
  [header |-> Some([timestamp |-> t, reference_id |-> 0, entity_path |-> "/"]),
   body |-> Body]

\* mutant: a failed resolution falls back to the logical name instead of panicking
AfterResolveNoPanic(r) == "get_publisher"

\* match resolve_topic_name(..) { Some(_) => .., None => panic!(..) }
AfterResolve(r) == IF r = None THEN "panicked" ELSE "get_publisher"

\* mutant: the handle is unwrapped, so a missing publisher panics
AfterGetPublisherExpect(t) == IF t = None THEN "panicked" ELSE "construct"

\* if let Some(topic) = get_publisher(..) { loop {..} }   (no else branch)
AfterGetPublisher(t) == IF t = None THEN "returned" ELSE "construct"

\* mutant: the result of publish is unwrapped
AfterPublishUnwrap(r) == IF r = "Err" THEN "panicked" ELSE "log"

\* match topic.publish(&message) { Ok(()) => .., Err(_) => .. }: both arms only log
AfterPublish(r) == "log"

\* mutant: every attempt is reported as published
LogRecordAlwaysPublished(r, m) ==
  [stream |-> "stdout", text |-> "Published", message |-> m]

\* println!("Published: {:?}", &message) / eprintln!("Failed to publish: {:?}", &message)
LogRecord(r, m) ==
  IF r = "Ok"
  THEN [stream |-> "stdout", text |-> "Published", message |-> m]
  ELSE [stream |-> "stderr", text |-> "Failed to publish", message |-> m]

\* mutant: a failed publish is retried with the same envelope
AfterLogRetry(r) == IF r = "Err" THEN "publish" ELSE "sleep"

\* mutant: a failed publish skips the sleep
AfterLogContinue(r) == IF r = "Err" THEN "construct" ELSE "sleep"

\* mutant: a failed publish re-acquires the publisher
AfterLogReacquire(r) == IF r = "Err" THEN "get_publisher" ELSE "sleep"

\* after either arm of the match control falls through to sleep(sleep_duration)
AfterLog(r) == "sleep"

(* ---- state machine ---------------------------------------------------- *)

Init ==
  /\ pc = "initialize"
  /\ initCalls = 0
  /\ resolveCalls = 0
  /\ resolveArgs = <<>>
  /\ resolved = None
  /\ getPublisherCalls = 0
  /\ topic = None
  /\ message = None
  /\ envelopes = 0
  /\ clockReadings = <<>>
  /\ published = <<>>
  /\ results = <<>>
  /\ logs = <<>>
  /\ slept = <<>>

\* make87::initialize();
Initialize ==
  /\ pc = "initialize"
  /\ initCalls' = initCalls + 1
  /\ pc' = "resolve"
  /\ UNCHANGED <<resolveCalls, resolveArgs, resolved, getPublisherCalls, topic, message,
                 envelopes, clockReadings, published, results, logs, slept>>

\* match make87::resolve_topic_name(topic_name) { Some(..) => .., None => panic!(..) }
Resolve ==
  /\ pc = "resolve"
  /\ \E r \in ResolveResults :
       /\ resolved' = r
       /\ pc' = AfterResolve(r)
  /\ resolveCalls' = resolveCalls + 1
  /\ resolveArgs' = Append(resolveArgs, topic_name)
  /\ UNCHANGED <<initCalls, getPublisherCalls, topic, message, envelopes,
                 clockReadings, published, results, logs, slept>>

\* if let Some(topic) = make87::get_publisher::<PlainText>(topic_name) { loop .. }
GetPublisher ==
  /\ pc = "get_publisher"
  /\ \E t \in GetPublisherResults(IF resolved = None THEN topic_name ELSE resolved[1]) :
       /\ topic' = t
       /\ pc' = AfterGetPublisher(t)
  /\ getPublisherCalls' = getPublisherCalls + 1
  /\ UNCHANGED <<initCalls, resolveCalls, resolveArgs, resolved, message, envelopes,
                 clockReadings, published, results, logs, slept>>

\* let message = PlainText { header: Some(Header { timestamp: get_current_time(), .. }), .. };
Construct ==
  /\ pc = "construct"
  /\ envelopes < MaxTicks
  /\ \E t \in Clock :
       /\ clockReadings' = Append(clockReadings, t)
       /\ message' = Some(NewMessage(t))
  /\ envelopes' = envelopes + 1
  /\ pc' = "publish"
  /\ UNCHANGED <<initCalls, resolveCalls, resolveArgs, resolved, getPublisherCalls, topic,
                 published, results, logs, slept>>

\* topic.publish(&message): a blocking call that returns Ok(()) or Err(_)
Publish ==
  /\ pc = "publish"
  /\ topic # None
  /\ message # None
  /\ published' = Append(published,
                         [message |-> message[1], via |-> topic[1], id |-> envelopes])
  /\ \E r \in PublishResults :
       /\ results' = Append(results, r)
       /\ pc' = AfterPublish(r)
  /\ UNCHANGED <<initCalls, resolveCalls, resolveArgs, resolved, getPublisherCalls, topic,
                 message, envelopes, clockReadings, logs, slept>>

\* the arm of the match taken for the result just returned
Log ==
  /\ pc = "log"
  /\ logs' = Append(logs, LogRecord(results[Len(results)], message[1]))
  /\ pc' = AfterLog(results[Len(results)])
  /\ UNCHANGED <<initCalls, resolveCalls, resolveArgs, resolved, getPublisherCalls, topic,
                 message, envelopes, clockReadings, published, results, slept>>

\* sleep(sleep_duration); the envelope is dropped at the end of the loop body
Sleep ==
  /\ pc = "sleep"
  /\ slept' = Append(slept, sleep_duration)
  /\ message' = None
  /\ pc' = "construct"
  /\ UNCHANGED <<initCalls, resolveCalls, resolveArgs, resolved, getPublisherCalls, topic,
                 envelopes, clockReadings, published, results, logs>>

Next ==
  \/ Initialize
  \/ Resolve
  \/ GetPublisher
  \/ Construct
  \/ Publish
  \/ Log
  \/ Sleep

Spec == Init /\ [][Next]_vars

\* main is one thread: a call that is entered returns and the next statement runs
LiveSpec ==
  /\ Init
  /\ [][Next]_vars
  /\ WF_vars(Construct)
  /\ WF_vars(Publish)
  /\ WF_vars(Log)
  /\ WF_vars(Sleep)

(* ---- claims ----------------------------------------------------------- *)

\* C1: when resolve_topic_name has returned None the process has panicked, and
\* no envelope was constructed, get_publisher was never called and nothing was
\* published.
C1_ResolveNonePanicsBeforeLoop ==
  (resolveCalls > 0 /\ resolved = None) =>
     /\ pc = "panicked"
     /\ envelopes = 0
     /\ getPublisherCalls = 0
     /\ Len(published) = 0

C1_Witness == resolveCalls = 1 /\ resolved = None /\ pc = "panicked"

\* C2: a publish call that returned Err never terminates the process and leaves
\* the handle alone: the step after its log record is the same sleep as after
\* an Ok, and (under fairness of the loop) the failed attempt number n is
\* followed by attempt number n+1.
C2_ErrIsNotFatal ==
  /\ []((\E i \in 1..Len(results) : results[i] = "Err") => pc \notin Terminated)
  /\ [][(pc = "log") => (pc' = "sleep" /\ topic' = topic)]_vars
  /\ [][(pc = "sleep") => (pc' = "construct" /\ slept' = Append(slept, sleep_duration)
                            /\ topic' = topic)]_vars
  /\ \A n \in 1..(MaxTicks - 1) :
        (Len(results) = n /\ results[n] = "Err") ~> (Len(published) = n + 1)

C2_Witness ==
  \E n \in 1..(MaxTicks - 1) :
     /\ Len(results) > n
     /\ results[n] = "Err"
     /\ Len(published) = n + 1

\* C3: the process is terminated only if topic resolution failed, and then by
\* the panic.
C3_ExitsOnlyOnFailedResolution ==
  pc \in Terminated => (pc = "panicked" /\ resolveCalls = 1 /\ resolved = None)

\* C4: one envelope per tick, strictly sequentially: the numbers of envelopes
\* constructed, publish calls returned and sleeps completed never differ by
\* more than the one envelope of the current iteration, and at most one
\* envelope is constructed but not yet returned from publish.
C4_OneEnvelopePerTick ==
  /\ envelopes - Len(results) \in {0, 1}
  /\ Len(results) - Len(slept) \in {0, 1}
  /\ envelopes - Len(slept) \in {0, 1}
  /\ (pc = "construct") => (envelopes = Len(results) /\ Len(results) = Len(slept))
  /\ (pc = "publish") => (envelopes = Len(results) + 1 /\ Len(results) = Len(slept))
  /\ (pc \in {"log", "sleep"}) => (envelopes = Len(results) /\ Len(results) = Len(slept) + 1)
  /\ Len(published) = Len(results)

C4_Witness ==
  pc = "publish" /\ envelopes = 2 /\ Len(slept) = 1 /\ Len(results) = 1 /\ results[1] = "Err"

\* C5: each publish attempt produces exactly one log record chosen by its
\* result and naming the envelope of that attempt; once the record of attempt
\* n is written there are n envelopes, n publish calls, as many "Published"
\* records as Ok results and as many "Failed to publish" records as Err results.
C5_OneLogRecordPerAttempt ==
  /\ Len(logs) = IF pc = "log" THEN Len(results) - 1 ELSE Len(results)
  /\ \A i \in 1..Len(logs) :
        /\ logs[i].message = published[i].message
        /\ logs[i].text = IF results[i] = "Ok" THEN "Published" ELSE "Failed to publish"
        /\ logs[i].stream = IF results[i] = "Ok" THEN "stdout" ELSE "stderr"
  /\ (pc \in {"sleep", "construct"}) =>
        /\ envelopes = Len(published)
        /\ Len(published) = Len(results)
        /\ Cardinality({i \in 1..Len(logs) : logs[i].text = "Published"})
             = Cardinality({i \in 1..Len(results) : results[i] = "Ok"})
        /\ Cardinality({i \in 1..Len(logs) : logs[i].text = "Failed to publish"})
             = Cardinality({i \in 1..Len(results) : results[i] = "Err"})

C5_Witness ==
  /\ results = <<"Ok", "Ok", "Err">>
  /\ Len(logs) = 3
  /\ envelopes = 3
  /\ pc \notin Terminated

\* C6: every envelope passed to publish has the fixed body, reference_id 0 and
\* entity_path "/".
C6_EnvelopeFieldsFixed ==
  \A i \in 1..Len(published) :
     /\ published[i].message.body = Body
     /\ published[i].message.header # None
     /\ published[i].message.header[1].reference_id = 0
     /\ published[i].message.header[1].entity_path = "/"

C6_Witness ==
  /\ Len(published) >= 2
  /\ results[1] = "Err"
  /\ published[1].message.header[1].timestamp # published[2].message.header[1].timestamp

\* C7 (as claimed): the timestamps of the envelopes published are
\* non-decreasing in the order of the iterations.
C7_TimestampsNonDecreasing ==
  \A i, j \in 1..Len(published) :
     i < j => published[i].message.header[1].timestamp
                <= published[j].message.header[1].timestamp

\* C7 (amended): the timestamp of the i-th envelope is the i-th wall-clock
\* reading, one reading taken per envelope constructed, so two timestamps are
\* ordered whenever the two readings are.
C7_TimestampIsReadingAtConstruction ==
  /\ Len(clockReadings) = envelopes
  /\ \A i \in 1..Len(published) :
        published[i].message.header[1].timestamp = clockReadings[i]
  /\ \A i, j \in 1..Len(published) :
        (i < j /\ clockReadings[i] <= clockReadings[j])
           => published[i].message.header[1].timestamp
                <= published[j].message.header[1].timestamp

C7_Witness ==
  /\ Len(published) >= 2
  /\ clockReadings[1] < clockReadings[2]
  /\ published[1].message.header[1].timestamp < published[2].message.header[1].timestamp

\* C8: no retry and no backoff: the k-th publish call carries the k-th envelope
\* constructed, so each envelope is published exactly once whether it failed or
\* not, and every sleep lasts the same fixed interval.
C8_NoRetryNoBackoff ==
  /\ \A k \in 1..Len(published) : published[k].id = k
  /\ (pc # "publish") => Len(published) = envelopes
  /\ \A k \in 1..Len(slept) : slept[k] = sleep_duration

C8_Witness ==
  /\ Len(results) >= 2
  /\ results[1] = "Err"
  /\ results[2] = "Err"
  /\ Len(slept) >= 2

\* C9: setup runs once, in the order initialize, resolve_topic_name,
\* get_publisher, loop: each is called at most once, a publish call is
\* preceded by a successful get_publisher on the resolved name, and every
\* publish goes through that one handle.
C9_SetupOnceBeforeLoop ==
  /\ initCalls <= 1 /\ resolveCalls <= 1 /\ getPublisherCalls <= 1
  /\ resolveCalls = 1 => initCalls = 1
  /\ getPublisherCalls = 1 => (resolveCalls = 1 /\ resolved # None)
  /\ \A i \in 1..Len(resolveArgs) : resolveArgs[i] = topic_name
  /\ (envelopes > 0 \/ Len(published) > 0) =>
        (getPublisherCalls = 1 /\ topic # None /\ topic[1].topic = resolved[1])
  /\ \A i \in 1..Len(published) : published[i].via = topic[1]

C9_Witness ==
  /\ Len(published) >= 2
  /\ results[1] = "Err"
  /\ getPublisherCalls = 1

\* C10: when resolve_topic_name returned Some and get_publisher returned None,
\* main returns normally without a panic, a log record, an envelope or a
\* publish call.
C10_NoPublisherReturnsQuietly ==
  /\ (resolved # None /\ getPublisherCalls > 0 /\ topic = None) =>
        /\ pc = "returned"
        /\ envelopes = 0
        /\ Len(published) = 0
        /\ logs = <<>>
  /\ (pc = "returned") => (resolved # None /\ getPublisherCalls = 1 /\ topic = None)

C10_Witness ==
  pc = "returned" /\ resolved # None /\ topic = None /\ envelopes = 0 /\ Len(published) = 0

====
